---- MODULE Spec2Model ----
(***************************************************************************)
(* Model of WebThingsClient (src/src/webthings-client.ts): the request     *)
(* executor (request/get/put/post/delete) and the streaming channel        *)
(* (connect/disconnect/subscribeEvents and the listeners that connect()    *)
(* registers on the WebSocket connection).                                 *)
(*                                                                         *)
(* Every step of the program is one action.  The variable `last` holds the *)
(* step just taken: the call or transport notification, its input, the     *)
(* events the client emitted during it, and how it ended.                  *)
(***************************************************************************)
EXTENDS Integers, Sequences, FiniteSets, TLC

VARIABLES
    probe,       \* what local() was given: the token, and whether the probe's
                 \* response carried a Location header
    client,      \* the readonly fields set by the constructor
    connection,  \* this.connection: 0 is undefined, else the socket's number
    sockets,     \* one record per WebSocketClient created by a connect() call
    last,        \* the step just taken, with what it emitted and returned
    heard        \* a listener's record: the first frames that arrived since it
                 \* began to listen and the events it heard for them, in order

vars == <<probe, client, connection, sockets, last, heard>>

----------------------------------------------------------------------------
(* Bounds and input sets *)

MaxSockets == 2
MaxKeys == 2
MaxHeard == 3

SocketIds == 1..MaxSockets

Tokens == {"tok"}
DeviceIds == {"d1"}
Keys == {"a", "1", "2", "pair"}
EventNames == {"overheated"}
Reasons == {"ECONNREFUSED", "ETIMEDOUT"}

Undefined == "undefined"

----------------------------------------------------------------------------
(* The constructor and the resolver *)

PlainPort == 8080
SecurePort == 4443

WebThingsClient(address, port, token, useHttps, skipValidation) ==
    [address |-> address,
     port |-> port,
     token |-> token,
     protocol |-> IF useHttps THEN "https" ELSE "http",
     webSocketProtocol |-> IF useHttps THEN "wss" ELSE "ws",
     rejectUnauthorized |-> ~skipValidation]

localStrict(token, hasLocation) ==
    IF hasLocation
    THEN WebThingsClient("localhost", SecurePort, token, TRUE, FALSE)
    ELSE WebThingsClient("localhost", PlainPort, token, FALSE, FALSE)

\* hasLocation: the probe's response carries a Location header
local(token, hasLocation) ==
    IF hasLocation
    THEN WebThingsClient("localhost", SecurePort, token, TRUE, TRUE)
    ELSE WebThingsClient("localhost", PlainPort, token, FALSE, FALSE)

----------------------------------------------------------------------------
(* Inbound frames.  A text frame's payload is described by the JSON text    *)
(* it holds: text that does not parse, the literals null and a number, or  *)
(* an object whose members are listed in the order they appear on the wire.*)
(* The value of the i-th member of data is i, so that a value identifies   *)
(* the member it came from.                                                *)

KeySeqs == UNION {[1..n -> Keys] : n \in 0..MaxKeys}

MessageTypes == {"propertyStatus", "actionStatus", "event", "connected",
                 "thingModified", "thingAdded", "thingRemoved", "bogus", Undefined}

DataTexts == {[kind |-> "absent", members |-> <<>>], [kind |-> "null", members |-> <<>>]}
             \cup {[kind |-> "object", members |-> ks] : ks \in KeySeqs}

NoData == [kind |-> "absent", members |-> <<>>]

ObjectTexts == [kind : {"object"}, messageType : MessageTypes,
                id : DeviceIds \cup {Undefined}, data : DataTexts]

OtherTexts == [kind : {"empty", "garbage", "null", "number"}, messageType : {Undefined},
               id : {Undefined}, data : {NoData}]

Frames == [type : {"utf8"}, text : ObjectTexts \cup OtherTexts]
          \cup [type : {"binary"}, text : [kind : {"empty"}, messageType : {Undefined},
                                           id : {Undefined}, data : {NoData}]]

----------------------------------------------------------------------------
(* JSON.parse of a frame's text.  An object's own keys are enumerated the  *)
(* way for...in and Object.keys enumerate them: the keys that are array    *)
(* indices first, in ascending numeric order, then the other keys in the   *)
(* order they were first created.  A repeated member keeps the place of    *)
(* its first occurrence and the value of its last.                         *)

ArrayIndex(k) == CASE k = "0" -> 0 [] k = "1" -> 1 [] k = "2" -> 2 [] OTHER -> -1

IsArrayIndex(k) == ArrayIndex(k) >= 0

Range(seq) == {seq[i] : i \in DOMAIN seq}

FirstOccurrences(members) ==
    SelectSeq([i \in DOMAIN members |-> i],
              LAMBDA i : \A j \in 1..(i - 1) : members[j] # members[i])

CreationOrder(members) ==
    LET at == FirstOccurrences(members) IN [n \in DOMAIN at |-> members[at[n]]]

RECURSIVE Ascending(_)
Ascending(indexKeys) ==
    IF indexKeys = {} THEN <<>>
    ELSE LET least == CHOOSE k \in indexKeys :
                          \A other \in indexKeys : ArrayIndex(k) <= ArrayIndex(other)
         IN  <<least>> \o Ascending(indexKeys \ {least})

OwnKeysAsReceived(members) == CreationOrder(members)

OwnKeys(members) ==
    Ascending({k \in Range(members) : IsArrayIndex(k)})
    \o SelectSeq(CreationOrder(members), LAMBDA k : ~IsArrayIndex(k))

LastValue(members, k) ==
    CHOOSE i \in DOMAIN members :
        members[i] = k /\ \A j \in DOMAIN members : members[j] = k => j <= i

UndefinedValue == [kind |-> "undefined", keys |-> <<>>, value |-> <<>>]

ParseData(data) ==
    CASE data.kind = "absent" -> UndefinedValue
      [] data.kind = "null" -> [kind |-> "null", keys |-> <<>>, value |-> <<>>]
      [] OTHER -> [kind |-> "object",
                   keys |-> OwnKeys(data.members),
                   value |-> [k \in Range(data.members) |-> LastValue(data.members, k)]]

\* the result of JSON.parse, or the SyntaxError it throws
JSONParse(text) ==
    CASE text.kind \in {"garbage", "empty"} ->
             [threw |-> "SyntaxError", kind |-> "none", fields |-> {},
              messageType |-> Undefined, id |-> Undefined, data |-> UndefinedValue]
      [] text.kind \in {"null", "number"} ->
             [threw |-> "none", kind |-> text.kind, fields |-> {},
              messageType |-> Undefined, id |-> Undefined, data |-> UndefinedValue]
      [] OTHER ->
             [threw |-> "none", kind |-> "object",
              fields |-> (IF text.messageType # Undefined THEN {"messageType"} ELSE {})
                         \cup (IF text.id # Undefined THEN {"id"} ELSE {})
                         \cup (IF text.data.kind # "absent" THEN {"data"} ELSE {}),
              messageType |-> text.messageType,
              id |-> text.id,
              data |-> ParseData(text.data)]

----------------------------------------------------------------------------
(* The events the client emits *)

Event(name, id, key, value, data) ==
    [name |-> name, id |-> id, key |-> key, value |-> value, data |-> data]

MessageEvent(id, data) == Event("message", id, Undefined, 0, data)
KeyEvent(name, id, key, value) == Event(name, id, key, value, UndefinedValue)
DeviceEvent(name, id, data) == Event(name, id, Undefined, 0, data)
PairEvent(value) == Event("pair", Undefined, Undefined, value, UndefinedValue)
CloseEvent == Event("close", Undefined, Undefined, 0, UndefinedValue)
ErrorEvent(reason) == Event("error", Undefined, reason, 0, UndefinedValue)

\* for (const key in msg.data) this.emit(name, msg.id, key, msg.data[key])
ForEachKey(name, msg) ==
    [n \in DOMAIN msg.data.keys |->
        KeyEvent(name, msg.id, msg.data.keys[n], msg.data.value[msg.data.keys[n]])]

Emitted(events) == [events |-> events, threw |-> "none"]
Thrown(events, error) == [events |-> events, threw |-> error]

\* a switch whose connected case iterates the keys of data
DeviceMessageConnectedPerKey(msg) ==
    CASE msg.messageType = "propertyStatus" -> Emitted(ForEachKey("propertyChanged", msg))
      [] msg.messageType = "actionStatus" -> Emitted(ForEachKey("actionTriggered", msg))
      [] msg.messageType = "event" -> Emitted(ForEachKey("eventRaised", msg))
      [] msg.messageType = "connected" -> Emitted(ForEachKey("connectStateChanged", msg))
      [] msg.messageType = "thingModified" ->
             Emitted(<<DeviceEvent("deviceModified", msg.id, msg.data)>>)
      [] msg.messageType = "thingAdded" ->
             Emitted(<<DeviceEvent("deviceAdded", msg.id, msg.data)>>)
      [] msg.messageType = "thingRemoved" ->
             Emitted(<<DeviceEvent("deviceRemoved", msg.id, msg.data)>>)
      [] OTHER -> Emitted(<<>>)

DeviceMessageUnknownThrows(msg) ==
    CASE msg.messageType = "propertyStatus" -> Emitted(ForEachKey("propertyChanged", msg))
      [] msg.messageType = "actionStatus" -> Emitted(ForEachKey("actionTriggered", msg))
      [] msg.messageType = "event" -> Emitted(ForEachKey("eventRaised", msg))
      [] msg.messageType = "connected" ->
             Emitted(<<DeviceEvent("connectStateChanged", msg.id, msg.data)>>)
      [] msg.messageType = "thingModified" ->
             Emitted(<<DeviceEvent("deviceModified", msg.id, msg.data)>>)
      [] msg.messageType = "thingAdded" ->
             Emitted(<<DeviceEvent("deviceAdded", msg.id, msg.data)>>)
      [] msg.messageType = "thingRemoved" ->
             Emitted(<<DeviceEvent("deviceRemoved", msg.id, msg.data)>>)
      [] OTHER -> Thrown(<<>>, "Error")

\* the switch over msg.messageType of a message that has id and data
DeviceMessage(msg) ==
    CASE msg.messageType = "propertyStatus" -> Emitted(ForEachKey("propertyChanged", msg))
      [] msg.messageType = "actionStatus" -> Emitted(ForEachKey("actionTriggered", msg))
      [] msg.messageType = "event" -> Emitted(ForEachKey("eventRaised", msg))
      [] msg.messageType = "connected" ->
             Emitted(<<DeviceEvent("connectStateChanged", msg.id, msg.data)>>)
      [] msg.messageType = "thingModified" ->
             Emitted(<<DeviceEvent("deviceModified", msg.id, msg.data)>>)
      [] msg.messageType = "thingAdded" ->
             Emitted(<<DeviceEvent("deviceAdded", msg.id, msg.data)>>)
      [] msg.messageType = "thingRemoved" ->
             Emitted(<<DeviceEvent("deviceRemoved", msg.id, msg.data)>>)
      [] OTHER -> Emitted(<<>>)

GatewayMessageFirstKeyPair(msg) ==
    IF msg.messageType = "actionStatus"
    THEN IF msg.data.kind = "null" THEN Thrown(<<>>, "TypeError")
         ELSE IF Len(msg.data.keys) >= 1 /\ "pair" \in Range(msg.data.keys)
              THEN Emitted(<<PairEvent(msg.data.value["pair"])>>)
              ELSE Emitted(<<>>)
    ELSE Emitted(<<>>)

\* the switch over msg.messageType of a message that has data and no id;
\* Object.keys(null) throws a TypeError
GatewayMessage(msg) ==
    IF msg.messageType = "actionStatus"
    THEN IF msg.data.kind = "null" THEN Thrown(<<>>, "TypeError")
         ELSE IF Len(msg.data.keys) = 1 /\ msg.data.keys[1] = "pair"
              THEN Emitted(<<PairEvent(msg.data.value["pair"])>>)
              ELSE Emitted(<<>>)
    ELSE Emitted(<<>>)

\* a dispatch that raises message only for a message that has id and data
DispatchDeviceOnly(msg) ==
    IF msg.kind = "null" THEN Thrown(<<>>, "TypeError")
    ELSE LET generic == IF {"id", "data"} \subseteq msg.fields
                        THEN <<MessageEvent(msg.id, msg.data)>>
                        ELSE <<>>
             specific == CASE msg.kind = "number" -> Thrown(<<>>, "TypeError")
                           [] {"id", "data"} \subseteq msg.fields -> DeviceMessage(msg)
                           [] "data" \in msg.fields -> GatewayMessage(msg)
                           [] OTHER -> Emitted(<<>>)
         IN  [events |-> generic \o specific.events, threw |-> specific.threw]

DispatchGenericLast(msg) ==
    IF msg.kind \in {"null", "number"} THEN Thrown(<<>>, "TypeError")
    ELSE LET specific == IF {"id", "data"} \subseteq msg.fields THEN DeviceMessage(msg)
                         ELSE IF "data" \in msg.fields THEN GatewayMessage(msg)
                         ELSE Emitted(<<>>)
         IN  [events |-> specific.events \o <<MessageEvent(msg.id, msg.data)>>,
              threw |-> specific.threw]

\* the statements after JSON.parse: reading msg.id of null throws a
\* TypeError, and so does the in operator on a number
Dispatch(msg) ==
    IF msg.kind = "null" THEN Thrown(<<>>, "TypeError")
    ELSE LET generic == <<MessageEvent(msg.id, msg.data)>>
             specific == CASE msg.kind = "number" -> Thrown(<<>>, "TypeError")
                           [] {"id", "data"} \subseteq msg.fields -> DeviceMessage(msg)
                           [] "data" \in msg.fields -> GatewayMessage(msg)
                           [] OTHER -> Emitted(<<>>)
         IN  [events |-> generic \o specific.events, threw |-> specific.threw]

\* message.type === 'utf8' && message.utf8Data
IsText(message) == message.type = "utf8" /\ message.text.kind # "empty"

\* the listener of the connection's 'message' event
OnMessageListener(message) ==
    IF ~IsText(message) THEN Emitted(<<>>)
    ELSE LET msg == JSONParse(message.text)
         IN  IF msg.threw # "none" THEN Thrown(<<>>, msg.threw) ELSE Dispatch(msg)

----------------------------------------------------------------------------
(* State *)

NoSocket == [state |-> "unused", promise |-> "none", reason |-> Undefined,
             url |-> Undefined, closes |-> 0]

NoFrame == [type |-> "none",
            text |-> [kind |-> "empty", messageType |-> Undefined,
                      id |-> Undefined, data |-> NoData]]

NoPayload == [messageType |-> Undefined, id |-> Undefined, data |-> {}]

NoHttp == [params |-> Undefined, args |-> Undefined, response |-> Undefined,
           request |-> Undefined, call |-> Undefined, unhandledRejection |-> FALSE]

\* a step: what was called or notified, on which socket, and what came of it.
\* threw is the error the step ended with (a rejected call, or an exception
\* leaving a listener); sentTo is the socket a payload was written to, and
\* was is the state that socket had when the step began.
Step(action, socket, message, events, threw, sent, sentTo, was) ==
    [action |-> action, socket |-> socket, message |-> message, events |-> events,
     threw |-> threw, sent |-> sent, sentTo |-> sentTo, was |-> was, http |-> NoHttp]

Quiet(action, socket) ==
    Step(action, socket, NoFrame, <<>>, "none", NoPayload, 0, "none")

Constructed ==
    /\ probe \in [token : Tokens, hasLocation : BOOLEAN]
    /\ client = local(probe.token, probe.hasLocation)
    /\ connection = 0
    /\ sockets = [s \in SocketIds |-> NoSocket]
    /\ last = Quiet("new", 0)

NotListening == [on |-> FALSE, frames |-> <<>>, events |-> <<>>]
ListeningFromStart == [on |-> TRUE, frames |-> <<>>, events |-> <<>>]

Init == Constructed /\ heard = NotListening

StateOf(s) == IF s = 0 THEN "none" ELSE sockets[s].state

\* the sockets whose listeners are registered and can still be notified
Listening(s) == sockets[s].state \in {"open", "closing"}

----------------------------------------------------------------------------
(* connect(): a new WebSocketClient connects to socketUrl?jwt=token; the   *)
(* call stays pending until 'connect' or 'connectFailed'.                  *)

DefaultPort == 8080

ConnectPorts == {DefaultPort}

SocketUrl(port) ==
    [protocol |-> client.webSocketProtocol, address |-> client.address,
     port |-> port, path |-> "/things", jwt |-> client.token]

connect(port) ==
    /\ \E s \in SocketIds :
          /\ sockets[s].state = "unused"
          /\ \A t \in 1..(s - 1) : sockets[t].state # "unused"
          /\ sockets' = [sockets EXCEPT ![s] =
                            [state |-> "connecting", promise |-> "pending",
                             reason |-> Undefined, url |-> SocketUrl(port), closes |-> 0]]
          /\ last' = Quiet("connect", s)
    /\ UNCHANGED <<probe, client, connection, heard>>

\* webSocketClient.on('connect'): the listeners are registered, the
\* connection is stored and the pending call resolves
OnConnect(s) ==
    /\ sockets[s].state = "connecting"
    /\ sockets' = [sockets EXCEPT ![s].state = "open", ![s].promise = "resolved"]
    /\ connection' = s
    /\ last' = Quiet("onConnect", s)
    /\ UNCHANGED <<probe, client, heard>>

\* webSocketClient.on('connectFailed'): the pending call rejects with the error
OnConnectFailed(s, error) ==
    /\ sockets[s].state = "connecting"
    /\ sockets' = [sockets EXCEPT ![s].state = "failed", ![s].promise = "rejected",
                                  ![s].reason = error]
    /\ last' = Step("onConnectFailed", s, NoFrame, <<>>, error, NoPayload, 0, "none")
    /\ UNCHANGED <<probe, client, connection, heard>>

\* connection.on('error'): the transport drops the socket after an error
OnError(s, error) ==
    /\ Listening(s)
    /\ sockets' = [sockets EXCEPT ![s].state = "broken"]
    /\ last' = Step("onError", s, NoFrame, <<ErrorEvent(error)>>, "none", NoPayload, 0, "none")
    /\ UNCHANGED <<probe, client, connection, heard>>

\* connection.on('close')
OnCloseListener == <<CloseEvent>>

OnClose(s) ==
    /\ sockets[s].state \in {"open", "closing", "broken"}
    /\ sockets' = [sockets EXCEPT ![s].state = "closed",
                                  ![s].closes = @ + Len(OnCloseListener)]
    /\ last' = Step("onClose", s, NoFrame, OnCloseListener, "none", NoPayload, 0,
                     sockets[s].state)
    /\ UNCHANGED <<probe, client, connection, heard>>

\* a listener that hears a frame's events only after those of later frames
HearLatestFirst(message, events) ==
    IF heard.on /\ Len(heard.frames) < MaxHeard
    THEN [heard EXCEPT !.frames = Append(@, message), !.events = events \o @]
    ELSE heard

\* this.emit(...): the listeners hear the events at once, in the order of
\* the calls
Hear(message, events) ==
    IF heard.on /\ Len(heard.frames) < MaxHeard
    THEN [heard EXCEPT !.frames = Append(@, message), !.events = @ \o events]
    ELSE heard

\* connection.on('message')
OnMessage(s, message) ==
    /\ Listening(s)
    /\ LET done == OnMessageListener(message)
       IN  /\ last' = Step("onMessage", s, message, done.events, done.threw, NoPayload, 0,
                           sockets[s].state)
           /\ heard' = Hear(message, done.events)
    /\ UNCHANGED <<probe, client, connection, sockets>>

----------------------------------------------------------------------------
(* disconnect() and subscribeEvents() *)

NotConnected == "Socket not connected!"

CloseNothing(s) == sockets

\* connection.close() starts the closing handshake of an open socket and
\* does nothing to a socket that is no longer open
Close(s) == IF sockets[s].state = "open"
            THEN [sockets EXCEPT ![s].state = "closing"]
            ELSE sockets

disconnect ==
    /\ IF connection = 0
       THEN /\ last' = Step("disconnect", 0, NoFrame, <<>>, NotConnected, NoPayload, 0, "none")
            /\ UNCHANGED sockets
       ELSE /\ sockets' = Close(connection)
            /\ last' = Step("disconnect", connection, NoFrame, <<>>, "none", NoPayload, 0,
                            StateOf(connection))
    /\ UNCHANGED <<probe, client, connection, heard>>

\* events is the set of names of the events object; the payload holds the
\* description of each
AddEventSubscription(device, events) ==
    [messageType |-> "addEventSubscription", id |-> device, data |-> events]

subscribeEvents(device, events) ==
    /\ IF connection = 0
       THEN last' = Step("subscribeEvents", 0, NoFrame, <<>>, NotConnected, NoPayload, 0, "none")
       ELSE last' = Step("subscribeEvents", connection, NoFrame, <<>>, "none",
                         AddEventSubscription(device, events), connection,
                         StateOf(connection))
    /\ UNCHANGED <<probe, client, connection, sockets, heard>>

----------------------------------------------------------------------------
(* The request executor.  A JavaScript value is a record of its type and   *)
(* content; a response is what fetch resolves with.                        *)

UndefinedJs == [type |-> "undefined", content |-> ""]
NullJs == [type |-> "null", content |-> ""]
StringJs(content) == [type |-> "string", content |-> content]
ObjectJs(content) == [type |-> "object", content |-> content]

\* JSON.stringify(body): undefined for undefined, else the JSON text of the value
JSONStringify(body) ==
    IF body.type = "undefined" THEN [defined |-> FALSE, encoding |-> "none", of |-> UndefinedJs]
    ELSE [defined |-> TRUE, encoding |-> "json", of |-> body]

\* `${body}`: the string form of the value
TemplateLiteral(body) ==
    [defined |-> TRUE, encoding |-> "raw",
     of |-> CASE body.type = "string" -> body
              [] body.type = "object" -> StringJs("[object Object]")
              [] OTHER -> StringJs(body.type)]

NoBody == [defined |-> FALSE, encoding |-> "none", of |-> UndefinedJs]

Args(nobody, strbody, expectnocontent) ==
    [nobody |-> nobody, strbody |-> strbody, expectnocontent |-> expectnocontent]

NoArgs == Args(FALSE, FALSE, FALSE)

\* lines 76-92: the parameters handed to fetch
Params(method, path, body, args) ==
    [method |-> method,
     url |-> client.protocol \o "://" \o client.address \o ":" \o ToString(client.port) \o path,
     rejectUnauthorized |-> client.rejectUnauthorized,
     headers |-> [Accept |-> "application/json",
                  Authorization |-> "Bearer " \o client.token,
                  ContentType |-> IF ~args.nobody THEN "application/json" ELSE Undefined],
     body |-> IF ~args.nobody
              THEN IF args.strbody THEN TemplateLiteral(body) ELSE JSONStringify(body)
              ELSE NoBody]

Statuses == {199, 200, 299, 300, 404}
StatusTexts == {"OK", "Not Found"}
NoHeader == "null"
ContentTypes == {NoHeader, "text/html", "application/json; charset=utf-8"}
Bodies == {"empty", "garbage", "json"}

Responses == [status : Statuses, statusText : StatusTexts,
              contentType : ContentTypes, body : Bodies]

IndexOfJsonExact(contentType) ==
    CASE contentType = "application/json" -> 0
      [] OTHER -> -1

\* contentType.indexOf('application/json')
IndexOfJson(contentType) ==
    CASE contentType = "application/json" -> 0
      [] contentType = "application/json; charset=utf-8" -> 0
      [] OTHER -> -1

Returned(value, checked, parsed) ==
    [outcome |-> "returned", value |-> value, error |-> "",
     checkedContentType |-> checked, parsedBody |-> parsed]

Threw(error, checked, parsed) ==
    [outcome |-> "threw", value |-> UndefinedJs, error |-> error,
     checkedContentType |-> checked, parsedBody |-> parsed]

IsFailureAbove300(status) == status < 200 \/ status > 300

\* response.status < 200 || response.status >= 300
IsFailure(status) == status < 200 \/ status >= 300

\* response.json(): the parsed body, or the error of a body that is no JSON
ResponseJson(response) ==
    IF response.body = "json" THEN Returned(ObjectJs("body"), TRUE, TRUE)
    ELSE Threw("invalid json response body", TRUE, TRUE)

\* lines 95-109: what request() makes of the response
request(method, path, body, args, response) ==
    IF IsFailure(response.status)
    THEN Threw(ToString(response.status) \o ": " \o response.statusText, FALSE, FALSE)
    ELSE LET contentType == IF response.contentType = NoHeader THEN ""
                            ELSE response.contentType
         IN  IF IndexOfJson(contentType) < 0
             THEN IF args.expectnocontent
                  THEN Returned(NullJs, TRUE, FALSE)
                  ELSE Threw("Content-Type is '" \o response.contentType
                             \o "' but expected 'application/json'", TRUE, FALSE)
             ELSE ResponseJson(response)

Paths == {"/things/d1"}
Values == {UndefinedJs, ObjectJs("on")}

\* a public call: the parameters sent, the response, what request() made of
\* it, and what the promise the caller holds settled with
Http(params, args, response, inner, outer) ==
    [params |-> params, args |-> args, response |-> response, request |-> inner,
     call |-> outer, unhandledRejection |-> (inner.outcome = "threw" /\ outer.outcome # "threw")]

HttpStep(action, http) == [Quiet(action, 0) EXCEPT !.http = http]

\* return this.request(...): the caller's promise settles as request() does
ReturnRequest(action, method, path, body, args, response) ==
    /\ LET inner == request(method, path, body, args, response)
       IN  last' = HttpStep(action, Http(Params(method, path, body, args), args,
                                         response, inner, inner))
    /\ UNCHANGED <<probe, client, connection, sockets, heard>>

\* this.request(...) neither awaited nor returned: the caller's promise
\* resolves with undefined whatever becomes of the request
DropRequest(action, method, path, body, args, response) ==
    /\ LET inner == request(method, path, body, args, response)
       IN  last' = HttpStep(action, Http(Params(method, path, body, args), args,
                                         response, inner, Returned(UndefinedJs, FALSE, FALSE)))
    /\ UNCHANGED <<probe, client, connection, sockets, heard>>

get(path, response) ==
    ReturnRequest("get", "GET", path, UndefinedJs, Args(TRUE, FALSE, FALSE), response)

put(path, value, response) ==
    ReturnRequest("put", "PUT", path, value, NoArgs, response)

post(path, value, response) ==
    ReturnRequest("post", "POST", path, value, NoArgs, response)

deleteExpectingContent(path, response) ==
    DropRequest("delete", "DELETE", path, StringJs(""), Args(FALSE, TRUE, FALSE), response)

delete(path, response) ==
    DropRequest("delete", "DELETE", path, StringJs(""), Args(FALSE, TRUE, TRUE), response)

RequestNext ==
    \/ \E path \in Paths, response \in Responses : get(path, response)
    \/ \E path \in Paths, value \in Values, response \in Responses : put(path, value, response)
    \/ \E path \in Paths, value \in Values, response \in Responses : post(path, value, response)
    \/ \E path \in Paths, response \in Responses : delete(path, response)

RequestSpec == Init /\ [][RequestNext]_vars

----------------------------------------------------------------------------

\* one frame of each sort: binary, text that is no JSON, a per-key
\* notification and a notification of an unrecognized type
TextFrame(messageType, id, data) ==
    [type |-> "utf8",
     text |-> [kind |-> "object", messageType |-> messageType, id |-> id, data |-> data]]

SampleFrames ==
    {f \in Frames : f.type = "binary" \/ f.text.kind = "garbage"}
    \cup {TextFrame("propertyStatus", "d1", [kind |-> "object", members |-> <<"a">>]),
          TextFrame("bogus", "d1", [kind |-> "object", members |-> <<>>])}

Calls ==
    \/ \E port \in ConnectPorts : connect(port)
    \/ disconnect
    \/ \E device \in DeviceIds, events \in SUBSET EventNames : subscribeEvents(device, events)

Transport ==
    \/ \E s \in SocketIds : OnConnect(s)
    \/ \E s \in SocketIds, error \in Reasons : OnConnectFailed(s, error)
    \/ \E s \in SocketIds, error \in Reasons : OnError(s, error)
    \/ \E s \in SocketIds : OnClose(s)

\* the channel under any sequence of calls and transport notifications
ChannelNext ==
    \/ Calls
    \/ Transport
    \/ \E s \in SocketIds, message \in SampleFrames : OnMessage(s, message)

ChannelSpec == Init /\ [][ChannelNext]_vars

\* no socket is connecting, open, closing or broken
NoLiveSocket == \A s \in SocketIds : sockets[s].state \in {"unused", "failed", "closed"}

\* the channel under a caller that calls connect() only when no earlier
\* connection is pending or open
SerialNext ==
    \/ NoLiveSocket /\ \E port \in ConnectPorts : connect(port)
    \/ disconnect
    \/ \E device \in DeviceIds, events \in SUBSET EventNames : subscribeEvents(device, events)
    \/ Transport
    \/ \E s \in SocketIds, message \in SampleFrames : OnMessage(s, message)

SerialSpec == Init /\ [][SerialNext]_vars

\* one connection and every frame it can receive
FirstConnect == (\A s \in SocketIds : sockets[s].state = "unused") /\ connect(DefaultPort)

DispatchNext ==
    \/ FirstConnect
    \/ OnConnect(1)
    \/ \E message \in Frames : OnMessage(1, message)

\* the listener reads none of the client's fields: one client stands for all
DispatchInit == Init /\ client.protocol = "http"

DispatchSpec == DispatchInit /\ [][DispatchNext]_vars

\* one connection whose frames a listener records from the start
OrderFrames ==
    SampleFrames
    \cup {TextFrame("propertyStatus", "d1", [kind |-> "object", members |-> <<"a", "1">>]),
          TextFrame("thingAdded", "d1", [kind |-> "object", members |-> <<"a">>]),
          TextFrame("actionStatus", Undefined, [kind |-> "object", members |-> <<"pair">>])}

OrderNext ==
    \/ FirstConnect
    \/ OnConnect(1)
    \/ \E message \in OrderFrames : OnMessage(1, message)

OrderInit == Constructed /\ client.protocol = "http" /\ heard = ListeningFromStart

OrderSpec == OrderInit /\ [][OrderNext]_vars

Next ==
    \/ RequestNext
    \/ Calls
    \/ Transport
    \/ \E s \in SocketIds, message \in Frames : OnMessage(s, message)

Spec == Init /\ [][Next]_vars

\* the transport reports the close of a socket that is closing or broken
\* (the closing handshake is bounded by the connection's close timer)
LiveChannelSpec ==
    ChannelSpec /\ \A s \in SocketIds : WF_vars(OnClose(s) /\ sockets[s].state # "open")

----------------------------------------------------------------------------
(* Properties *)

IsCall(actions) == last.action \in actions

Received == last.message
Members == last.message.text.data.members

\* the frame is text holding an object that has both id and data
HasIdAndData(message) ==
    /\ message.type = "utf8"
    /\ message.text.kind = "object"
    /\ message.text.id # Undefined
    /\ message.text.data.kind # "absent"

PerKeyName(messageType) ==
    CASE messageType = "propertyStatus" -> "propertyChanged"
      [] messageType = "actionStatus" -> "actionTriggered"
      [] messageType = "event" -> "eventRaised"
      [] OTHER -> Undefined

IsPerKeyFrame ==
    /\ last.action = "onMessage"
    /\ HasIdAndData(Received)
    /\ PerKeyName(Received.text.messageType) # Undefined

SpecificEvents == SelectSeq(last.events, LAMBDA e : e.name # "message")

FirstPlace(members, k) ==
    CHOOSE i \in DOMAIN members :
        members[i] = k /\ \A j \in DOMAIN members : members[j] = k => i <= j

\* key j is enumerated before key k
EnumeratedBefore(members, j, k) ==
    IF IsArrayIndex(j)
    THEN ~IsArrayIndex(k) \/ ArrayIndex(j) < ArrayIndex(k)
    ELSE ~IsArrayIndex(k) /\ FirstPlace(members, j) < FirstPlace(members, k)

CarriesKey(event, k) ==
    event = KeyEvent(PerKeyName(Received.text.messageType), Received.text.id, k,
                     LastValue(Members, k))

\* C1: whenever the channel is not Connected (no connection was ever stored,
\* or the stored connection's socket has closed), subscribeEvents fails with
\* the not-connected error and writes to no socket.
C1_SendFailsWhenNotConnected ==
    (IsCall({"subscribeEvents"}) /\ last.was \in {"none", "closed"})
        => (last.threw = NotConnected /\ last.sentTo = 0)

\* C2 as stated: a propertyStatus, actionStatus or event frame with id and
\* data raises one specific event per key of data, carrying (id, key,
\* data[key]), in the order in which the keys appear in the received frame.
C2_KeysInReceivedOrder ==
    IsPerKeyFrame =>
        LET received == CreationOrder(Members)
        IN  /\ Len(SpecificEvents) = Len(received)
            /\ \A n \in DOMAIN received : CarriesKey(SpecificEvents[n], received[n])

\* C2 as amended: such a frame raises exactly one specific event per distinct
\* key of data, carrying (id, key, data[key]); the keys that are array
\* indices come first, in ascending numeric order, and the other keys follow
\* in the order in which they first appear in the received frame.
C2_KeysInPropertyOrder ==
    IsPerKeyFrame =>
        /\ Len(SpecificEvents) = Cardinality(Range(Members))
        /\ {SpecificEvents[n].key : n \in DOMAIN SpecificEvents} = Range(Members)
        /\ \A n \in DOMAIN SpecificEvents : CarriesKey(SpecificEvents[n], SpecificEvents[n].key)
        /\ \A m, n \in DOMAIN SpecificEvents :
              m < n => EnumeratedBefore(Members, SpecificEvents[m].key, SpecificEvents[n].key)

\* a frame whose keys arrive as "a" then "1" has raised its two events
C2_Witness ==
    /\ IsPerKeyFrame
    /\ Members = <<"a", "1">>
    /\ Len(SpecificEvents) = 2
    /\ SpecificEvents[1].key = "1"

\* C3: a frame with id and data raises message(id, data) exactly once, and
\* before every specific event of the frame.
C3_MessageFirstAndOnce ==
    (last.action = "onMessage" /\ HasIdAndData(Received)) =>
        /\ Len(last.events) >= 1
        /\ last.events[1] = MessageEvent(Received.text.id, ParseData(Received.text.data))
        /\ \A n \in DOMAIN last.events : last.events[n].name = "message" <=> n = 1

\* a thingAdded frame has raised message and then deviceAdded
C3_Witness ==
    /\ last.action = "onMessage"
    /\ HasIdAndData(Received)
    /\ Len(last.events) = 2
    /\ last.events[2].name = "deviceAdded"

\* C4: a frame that is not a text frame, or whose text is not valid JSON,
\* raises no event and no exception leaves the listener.
C4_MalformedFrameIgnored ==
    (last.action = "onMessage"
     /\ (Received.type # "utf8" \/ Received.text.kind \in {"garbage", "empty"}))
        => (last.events = <<>> /\ last.threw = "none")

HttpCalls == {"get", "put", "post", "delete"}

StatusError(response) == ToString(response.status) \o ": " \o response.statusText

\* C5: a response whose status is outside [200,300) makes the get, put, post
\* or delete call the caller issued reject with the status code and text.
C5_CallRejectsOnFailureStatus ==
    (IsCall(HttpCalls) /\ last.http.response.status \notin 200..299)
        => /\ last.http.call.outcome = "threw"
           /\ last.http.call.error = StatusError(last.http.response)

\* C6: for a status outside [200,300) request fails with the status code and
\* text, without reading the Content-Type header and without parsing the body.
C6_RequestFailsOnFailureStatus ==
    (IsCall(HttpCalls) /\ last.http.response.status \notin 200..299)
        => /\ last.http.request.outcome = "threw"
           /\ last.http.request.error = StatusError(last.http.response)
           /\ ~last.http.request.checkedContentType
           /\ ~last.http.request.parsedBody

\* a put answered 300 has failed
C6_Witness ==
    /\ IsCall({"put"})
    /\ last.http.response.status = 300
    /\ last.http.request.outcome = "threw"

\* C7 as stated: the request of a delete answered 2xx with an empty or
\* non-JSON body yields null whatever Content-Type the response declares.
C7_NullWhateverContentType ==
    (IsCall({"delete"}) /\ last.http.response.status \in 200..299
     /\ last.http.response.body \in {"empty", "garbage"})
        => (last.http.request.outcome = "returned" /\ last.http.request.value = NullJs)

DeclaresJson(response) ==
    response.contentType \in {"application/json", "application/json; charset=utf-8"}

\* C7 as amended: the request of a delete answered 2xx yields null, without
\* parsing the body, when the response declares no Content-Type or one that
\* does not contain application/json; when it declares application/json the
\* body is parsed, and a body that is empty or not JSON makes the request fail.
C7_NullUnlessJsonDeclared ==
    (IsCall({"delete"}) /\ last.http.response.status \in 200..299)
        => IF DeclaresJson(last.http.response)
           THEN /\ last.http.request.parsedBody
                /\ last.http.request.outcome = "threw"
                       <=> last.http.response.body \in {"empty", "garbage"}
           ELSE /\ last.http.request.outcome = "returned"
                /\ last.http.request.value = NullJs
                /\ ~last.http.request.parsedBody

\* a delete answered 200 text/html with a body that is no JSON has yielded null
C7_Witness ==
    /\ IsCall({"delete"})
    /\ last.http.response.status = 200
    /\ last.http.response.contentType = "text/html"
    /\ last.http.response.body = "garbage"
    /\ last.http.request.value = NullJs

\* the latest connect() call was rejected
LatestConnectFailed ==
    \E s \in SocketIds : /\ sockets[s].state = "failed"
                         /\ \A t \in SocketIds : t > s => sockets[t].state = "unused"

Attempts == {s \in SocketIds : sockets[s].state # "unused"}

C8_State ==
    /\ \A s \in SocketIds :
          /\ sockets[s].promise = "resolved"
                => sockets[s].state \in {"open", "closing", "broken", "closed"}
          /\ sockets[s].state = "failed"
                => (sockets[s].promise = "rejected" /\ sockets[s].reason \in Reasons)
    /\ last.action = "onConnectFailed" => sockets[last.socket].reason = last.threw
    /\ (IsCall({"subscribeEvents", "disconnect"}) /\ LatestConnectFailed /\ NoLiveSocket)
          => last.threw = NotConnected

\* C8: a connect() call is resolved only once its socket has connected; a
\* failed one is rejected with the transport's reason; after it, with no
\* other socket live, subscribeEvents and disconnect fail with the
\* not-connected error; and a connection attempt starts only in a connect()
\* call.
C8_FailedConnectLeavesDisconnected ==
    /\ []C8_State
    /\ [][Attempts' # Attempts => last'.action = "connect"]_vars

\* C9: disconnect() fails with the not-connected error unless the client's
\* connection is open.
C9_DisconnectFailsWhenNotConnected ==
    (IsCall({"disconnect"}) /\ last.was # "open") => last.threw = NotConnected

\* C10: once disconnect() has been called on an open socket the close event
\* of that socket is eventually raised; it is raised at most once, and no
\* frame of a socket is dispatched once its close event has been raised.
C10_CloseOnceAfterDisconnect ==
    /\ \A s \in SocketIds :
          (IsCall({"disconnect"}) /\ last.socket = s /\ last.was = "open")
              ~> (sockets[s].closes = 1)
    /\ [](\A s \in SocketIds : sockets[s].closes <= 1)
    /\ [][\A s \in SocketIds :
             (last'.action = "onMessage" /\ last'.socket = s) => sockets[s].closes = 0]_vars

\* the close of a socket that disconnect() had closed has been reported
C10_Witness ==
    /\ last.action = "onClose"
    /\ last.was = "closing"
    /\ sockets[last.socket].closes = 1

DeviceEventNames == {"propertyChanged", "actionTriggered", "eventRaised", "connectStateChanged",
                     "deviceModified", "deviceAdded", "deviceRemoved"}

\* the frame is text holding an object that has data and no id
HasDataAndNoId(message) ==
    /\ message.type = "utf8"
    /\ message.text.kind = "object"
    /\ message.text.id = Undefined
    /\ message.text.data.kind # "absent"

EventsNamed(names) == SelectSeq(last.events, LAMBDA e : e.name \in names)

\* C11: a frame with data and no id raises pair(data.pair) if and only if its
\* messageType is actionStatus and pair is the one key of its data, and it
\* raises none of the per-device events.
C11_PairOnlyForSinglePairKey ==
    (last.action = "onMessage" /\ HasDataAndNoId(Received)) =>
        /\ EventsNamed(DeviceEventNames) = <<>>
        /\ IF /\ Received.text.messageType = "actionStatus"
              /\ Received.text.data.kind = "object"
              /\ Range(Members) = {"pair"}
           THEN EventsNamed({"pair"}) = <<PairEvent(LastValue(Members, "pair"))>>
           ELSE EventsNamed({"pair"}) = <<>>

\* the frame {data: {pair: ...}, messageType: actionStatus} has raised pair
C11_Witness ==
    /\ last.action = "onMessage"
    /\ HasDataAndNoId(Received)
    /\ Members = <<"pair">>
    /\ Len(last.events) = 2
    /\ last.events[2].name = "pair"

RecognizedTypes == {"propertyStatus", "actionStatus", "event", "connected",
                    "thingModified", "thingAdded", "thingRemoved"}

IsObjectFrame(message) == message.type = "utf8" /\ message.text.kind = "object"

\* a text frame holding an object whose messageType is none of the known ones
IsUnrecognized(message) ==
    IsObjectFrame(message) /\ message.text.messageType \notin RecognizedTypes

DeviceName(messageType) ==
    CASE messageType = "connected" -> "connectStateChanged"
      [] messageType = "thingModified" -> "deviceModified"
      [] messageType = "thingAdded" -> "deviceAdded"
      [] messageType = "thingRemoved" -> "deviceRemoved"
      [] OTHER -> Undefined

Repeat(name, n) == [i \in 1..n |-> name]

KeyCount(message) ==
    IF message.text.data.kind = "object" THEN Cardinality(Range(message.text.data.members))
    ELSE 0

\* the names of the events section 4.3 of the specification asks of a frame
\* that is no text frame or holds an object
ExpectedNames(message) ==
    IF ~IsObjectFrame(message) THEN <<>>
    ELSE <<"message">> \o
         (CASE HasIdAndData(message) /\ PerKeyName(message.text.messageType) # Undefined ->
                   Repeat(PerKeyName(message.text.messageType), KeyCount(message))
            [] HasIdAndData(message) /\ DeviceName(message.text.messageType) # Undefined ->
                   <<DeviceName(message.text.messageType)>>
            [] /\ HasDataAndNoId(message)
               /\ message.text.messageType = "actionStatus"
               /\ message.text.data.kind = "object"
               /\ Range(message.text.data.members) = {"pair"} -> <<"pair">>
            [] OTHER -> <<>>)

Names(events) == [n \in DOMAIN events |-> events[n].name]

\* C12 (one frame): a frame of an unrecognized messageType raises message at
\* most and no specific event, no exception leaves the listener, and the
\* socket is as it was.
C12_UnrecognizedFrame ==
    (last.action = "onMessage" /\ IsUnrecognized(Received)) =>
        /\ Names(last.events) = <<"message">>
        /\ last.threw = "none"
        /\ sockets[last.socket].state = last.was
        /\ connection = last.socket

\* C12: a frame with an unrecognized messageType raises no specific event and
\* leaves the channel connected, and the frame that follows it on the socket
\* (a frame that is no text, or text holding an object) raises the events of
\* its own messageType.
C12_UnrecognizedTypeHarmless ==
    /\ []C12_UnrecognizedFrame
    /\ [][(/\ last.action = "onMessage" /\ IsUnrecognized(Received)
           /\ last'.action = "onMessage" /\ last'.socket = last.socket
           /\ (last'.message.type = "binary" \/ last'.message.text.kind \in {"object", "empty"}))
              => Names(last'.events) = ExpectedNames(last'.message)]_vars

\* a frame of an unrecognized messageType has raised message alone on a
\* socket that is still open
C12_Witness ==
    /\ last.action = "onMessage"
    /\ HasIdAndData(Received)
    /\ Received.text.messageType = "bogus"
    /\ Names(last.events) = <<"message">>
    /\ sockets[last.socket].state = "open"

\* C13: every socket connect() opens is addressed by the client's descriptor:
\* ws or wss as the client is plain or encrypted, the client's address, the
\* port the requests use, and the token as jwt.
C13_SocketAtDescriptor ==
    \A s \in SocketIds :
        sockets[s].state # "unused" =>
            /\ sockets[s].url.protocol = (IF client.protocol = "https" THEN "wss" ELSE "ws")
            /\ sockets[s].url.address = client.address
            /\ sockets[s].url.port = client.port
            /\ sockets[s].url.jwt = client.token

ContentTypeError(response) ==
    "Content-Type is '" \o response.contentType \o "' but expected 'application/json'"

\* C14: for get, put and post answered 2xx, a Content-Type that is absent or
\* does not contain application/json makes the call fail with an error naming
\* that type, the body unparsed; a Content-Type that contains application/json
\* makes the body be parsed and, being JSON, returned.
C14_JsonExpected ==
    (IsCall({"get", "put", "post"}) /\ last.http.response.status \in 200..299) =>
        /\ last.http.call = last.http.request
        /\ IF DeclaresJson(last.http.response)
           THEN /\ last.http.call.parsedBody
                /\ last.http.response.body = "json"
                      => (last.http.call.outcome = "returned"
                          /\ last.http.call.value = ObjectJs("body"))
           ELSE /\ last.http.call.outcome = "threw"
                /\ last.http.call.error = ContentTypeError(last.http.response)
                /\ ~last.http.call.parsedBody

\* a get answered 200 text/html has failed with the error naming text/html
C14_Witness ==
    /\ IsCall({"get"})
    /\ last.http.response.status = 200
    /\ last.http.response.contentType = "text/html"
    /\ last.http.call.outcome = "threw"
    /\ last.http.call.error = "Content-Type is 'text/html' but expected 'application/json'"

\* C15: the client local() returns is on https and wss, on the alternate
\* port, with certificate validation relaxed, exactly when the probe's
\* response carried a Location header; otherwise it is on http and ws, on the
\* plaintext port, with validation in force; its token is the token given.
C15_ResolverChoice ==
    /\ client.token = probe.token
    /\ client.address = "localhost"
    /\ IF probe.hasLocation
       THEN /\ client.protocol = "https" /\ client.webSocketProtocol = "wss"
            /\ client.port = SecurePort
            /\ ~client.rejectUnauthorized
       ELSE /\ client.protocol = "http" /\ client.webSocketProtocol = "ws"
            /\ client.port = PlainPort
            /\ client.rejectUnauthorized

\* a client resolved from a probe that was redirected, in use
C15_Witness ==
    /\ probe.hasLocation
    /\ client.protocol = "https"
    /\ last.action = "connect"

RECURSIVE ExpectedNamesOfAll(_)
ExpectedNamesOfAll(frames) ==
    IF frames = <<>> THEN <<>>
    ELSE ExpectedNames(Head(frames)) \o ExpectedNamesOfAll(Tail(frames))

\* C16: the events heard for the frames that arrived on a socket are the
\* events of the first frame (message, then the specific events), then those
\* of the second, and so on in arrival order.
C16_EventsInArrivalOrder ==
    heard.on => Names(heard.events) = ExpectedNamesOfAll(heard.frames)

\* a two-key propertyStatus frame and then a thingAdded frame have been heard
C16_Witness ==
    /\ heard.on
    /\ Len(heard.frames) >= 2
    /\ heard.frames[1].text.data.members = <<"a", "1">>
    /\ heard.frames[2].text.messageType = "thingAdded"
    /\ Len(heard.events) >= 5

OpenSockets == {s \in SocketIds : sockets[s].state = "open"}

\* C17: at every moment at most one open socket forwards its frames, close
\* and error notifications to the client's listeners, and that socket is
\* the client's connection, the one subscribeEvents writes to and
\* disconnect() closes.
C17_AtMostOneSocket ==
    /\ Cardinality(OpenSockets) <= 1
    /\ \A s \in OpenSockets : connection = s
    /\ (IsCall({"subscribeEvents"}) /\ last.sentTo # 0 /\ OpenSockets # {})
          => last.sentTo \in OpenSockets

\* C18: every request carries Accept: application/json and Authorization:
\* Bearer <token>; it carries a Content-Type header exactly when it carries
\* a body: get sends neither, and put, post and delete send the header with
\* a defined body, the JSON text of the value, or for delete the raw
\* empty string.
C18_ContentTypeIffBody ==
    IsCall(HttpCalls) =>
        LET params == last.http.params
        IN  /\ params.headers.Accept = "application/json"
            /\ params.headers.Authorization = "Bearer " \o client.token
            /\ (params.headers.ContentType # Undefined) <=> params.body.defined
            /\ IsCall({"get"}) => ~params.body.defined
            /\ IsCall({"put", "post"}) => /\ params.body.defined
                                          /\ params.body.encoding = "json"
            /\ IsCall({"delete"}) => /\ params.body.defined
                                     /\ params.body.encoding = "raw"
                                     /\ params.body.of = StringJs("")

IsDeviceFrame ==
    /\ last.action = "onMessage"
    /\ HasIdAndData(Received)
    /\ DeviceName(Received.text.messageType) # Undefined

\* C19: a frame with id and data whose messageType is connected,
\* thingModified, thingAdded or thingRemoved raises, after message, exactly
\* one event, connectStateChanged, deviceModified, deviceAdded or
\* deviceRemoved, carrying the id and the whole of data, however many keys
\* data has, and no per-key event.
C19_OneEventWithFullData ==
    IsDeviceFrame =>
        /\ SpecificEvents = <<[name |-> DeviceName(Received.text.messageType),
                               id |-> Received.text.id,
                               key |-> Undefined,
                               value |-> 0,
                               data |-> ParseData(Received.text.data)]>>
        /\ last.threw = "none"

\* a connected frame whose data has two keys has raised connectStateChanged
C19_Witness ==
    /\ IsDeviceFrame
    /\ Received.text.messageType = "connected"
    /\ Cardinality(Range(Members)) = 2
    /\ Len(last.events) = 2
    /\ last.events[2].name = "connectStateChanged"
    /\ last.events[2].data.keys = OwnKeys(Members)

\* the frame is not text, or its text is empty or is not JSON
IsUnparsed(message) ==
    message.type # "utf8" \/ message.text.kind \in {"garbage", "empty"}

\* C20: every text frame that parses as an object raises message exactly
\* once, first, with the frame's id and data, also when it has no id or no
\* data (the pair frame raises message(undefined, data) and then pair); a
\* frame that is not parsed raises none, so there are as many message events
\* as parsed frames; and only a frame that has both id and data raises a
\* per-device event.
C20_MessageOncePerParsedFrame ==
    last.action = "onMessage" =>
        /\ IsObjectFrame(Received) =>
              /\ Len(EventsNamed({"message"})) = 1
              /\ last.events[1] = MessageEvent(Received.text.id, ParseData(Received.text.data))
        /\ IsUnparsed(Received) => EventsNamed({"message"}) = <<>>
        /\ EventsNamed(DeviceEventNames) # <<>> => HasIdAndData(Received)
        /\ EventsNamed({"pair"}) # <<>> =>
              /\ HasDataAndNoId(Received)
              /\ last.events = <<MessageEvent(Undefined, ParseData(Received.text.data)),
                                 PairEvent(ParseData(Received.text.data).value["pair"])>>

\* a frame that has a messageType and neither id nor data has raised
\* message(undefined, undefined) and nothing else
C20_Witness ==
    /\ last.action = "onMessage"
    /\ IsObjectFrame(Received)
    /\ Received.text.messageType = "propertyStatus"
    /\ Received.text.id = Undefined
    /\ Received.text.data.kind = "absent"
    /\ last.events = <<MessageEvent(Undefined, UndefinedValue)>>
    /\ last.threw = "none"

====
